---- MODULE Spec2Model ----
(***************************************************************************)
(* The Brain Map commands of src-tauri/src/commands.rs over the tables of  *)
(* src-tauri/src/db.rs.  Every command locks db.conn for its whole body,   *)
(* so one command is one action; LockSpec has the commands of concurrent   *)
(* callers statement by statement.  Rows are records, tables are functions *)
(* from the primary key to the row.  Timestamps are the clock reading      *)
(* (to_rfc3339 of a UTC instant orders as the instant does), identifiers   *)
(* are fresh numbers (a UUID is never handed out twice).                   *)
(*                                                                         *)
(* Columns modelled: brain_maps(id, title, center_node_id,                 *)
(* center_node_text, created_at, updated_at, deleted_at);                  *)
(* brain_map_nodes(id, brain_map_id, parent_node_id, label, x, y,          *)
(* linked_folder_id, layer, created_at, updated_at);                       *)
(* brain_map_connections(id, brain_map_id,                                 *)
(* source_node_id, target_node_id, style, created_at);                     *)
(* notes(id, title, folder_id, is_pinned, created_at, updated_at,          *)
(* deleted_at); folders(id, name, parent_id, created_at, updated_at);      *)
(* events(id, title, start_time, created_at, updated_at, deleted_at).      *)
(***************************************************************************)
EXTENDS Integers, Sequences, FiniteSets, TLC

\* ---------------------------------------------------------------- bounds
MaxMaps == 2
MaxNodes == 4
MaxConns == 2
MaxBatch == 2
MaxSteps == 4
MaxNotes == 2
MaxFolders == 2
MaxEvents == 1
MaxThreads == 2
MaxCalls == 2

\* ------------------------------------------------------------- constants
\* Option<T> / a nullable column: None is the empty sequence, Some(v) is <<v>>.
None == <<>>

Some(v) == <<v>>

\* Option::unwrap_or
unwrap_or(o, d) == IF o = None THEN d ELSE o[1]

\* Option::or
or(o, p) == IF o = None THEN p ELSE o

\* layer of the center node (commands.rs:794)
CenterLayer == 0

\* layer of a node created without a parent (commands.rs:924)
TopLayer == 1

VARIABLES brain_maps, brain_map_nodes, brain_map_connections,
          notes, folders, events,
          clock, nextMap, nextNode, nextConn,
          nextNote, nextFolder, nextEvent, last, pre,
          mutex, threads

vars == <<brain_maps, brain_map_nodes, brain_map_connections,
          notes, folders, events,
          clock, nextMap, nextNode, nextConn,
          nextNote, nextFolder, nextEvent, last, pre,
          mutex, threads>>

\* The tables of the flat services and their identifier counters: no Brain
\* Map command names them in a statement.
flat == <<notes, folders, events, nextNote, nextFolder, nextEvent>>

\* The Brain Map tables and counters: no flat command names them in a
\* statement (the delete of a folder reaches the node rows through their
\* foreign key).
brain == <<brain_maps, brain_map_nodes, brain_map_connections,
           nextMap, nextNode, nextConn>>

\* ------------------------------------------------------- table helpers
Put(t, k, row) == [i \in DOMAIN t \cup {k} |-> IF i = k THEN row ELSE t[i]]

Remove(t, D) == [i \in DOMAIN t \ D |-> t[i]]

\* The store as one value, for the snapshot taken when a command starts.
Store == [maps |-> brain_maps, nodes |-> brain_map_nodes,
          conns |-> brain_map_connections,
          notes |-> notes, folders |-> folders, events |-> events]

\* ------------------------------------------------------- the store's rules
\* Foreign-key enforcement of the connection.  Database::new opens the
\* connection and sets no pragma, so enforcement is what the linked SQLite
\* library defaults to; the specification states the store runs with
\* foreign-key cascade enabled.
ForeignKeys == TRUE

\* brain_map_nodes: FOREIGN KEY (brain_map_id), FOREIGN KEY (parent_node_id),
\* FOREIGN KEY (linked_folder_id)
NodeRowAccepted(ms, ns, row) ==
    ForeignKeys =>
        /\ row.brain_map_id \in DOMAIN ms
        /\ row.parent_node_id = None \/ row.parent_node_id[1] \in DOMAIN ns
        /\ row.linked_folder_id = None
              \/ row.linked_folder_id[1] \in DOMAIN folders

\* Mutant: target_node_id declared without its FOREIGN KEY clause.
ConnectionRowAcceptedButTarget(ms, ns, row) ==
    ForeignKeys =>
        /\ row.brain_map_id \in DOMAIN ms
        /\ row.source_node_id \in DOMAIN ns

\* brain_map_connections: the three FOREIGN KEY clauses
ConnectionRowAccepted(ms, ns, row) ==
    ForeignKeys =>
        /\ row.brain_map_id \in DOMAIN ms
        /\ row.source_node_id \in DOMAIN ns
        /\ row.target_node_id \in DOMAIN ns

\* Mutant: parent_node_id declared without ON DELETE SET NULL taking effect.
ParentOnDeleteKept(row, D) == row

\* parent_node_id ... ON DELETE SET NULL: a surviving row whose parent is
\* among the deleted rows D.
ParentOnDelete(row, D) ==
    IF ForeignKeys /\ row.parent_node_id # None /\ row.parent_node_id[1] \in D
    THEN [row EXCEPT !.parent_node_id = None]
    ELSE row

\* Mutant: brain_map_nodes.brain_map_id without ON DELETE CASCADE.
NodesOfMapsKept(ns, M) == {}

\* brain_map_nodes.brain_map_id ... ON DELETE CASCADE: the node rows that go
\* with the map rows M.
NodesOfMaps(ns, M) ==
    IF ForeignKeys THEN {n \in DOMAIN ns : ns[n].brain_map_id \in M} ELSE {}

\* Mutant: target_node_id without ON DELETE CASCADE.
ConnectionsOfButTarget(cs, M, D) ==
    {c \in DOMAIN cs : \/ cs[c].brain_map_id \in M
                       \/ cs[c].source_node_id \in D}

\* brain_map_connections ... ON DELETE CASCADE (map, source, target): the
\* connection rows that go with the map rows M and the node rows D.
ConnectionsOf(cs, M, D) ==
    IF ForeignKeys
    THEN {c \in DOMAIN cs : \/ cs[c].brain_map_id \in M
                            \/ cs[c].source_node_id \in D
                            \/ cs[c].target_node_id \in D}
    ELSE {}

\* DELETE FROM brain_map_nodes for the rows D, with its foreign-key actions.
NodesAfterDelete(ns, D) ==
    [n \in DOMAIN ns \ D |-> ParentOnDelete(ns[n], D)]

\* notes: FOREIGN KEY (folder_id) REFERENCES folders(id)
NoteRowAccepted(fs, row) ==
    ForeignKeys => (row.folder_id = None \/ row.folder_id[1] \in DOMAIN fs)

\* folders: FOREIGN KEY (parent_id) REFERENCES folders(id); a row may name
\* itself once it is stored.
FolderRowAccepted(fs, row) ==
    ForeignKeys => (row.parent_id = None \/ row.parent_id[1] \in DOMAIN fs)

\* Mutant: a lookup that matches no row falls back to the first row of the
\* table.
CurrentOrFirst(t, id) ==
    IF id \in DOMAIN t THEN Some(t[id])
    ELSE IF DOMAIN t = {} THEN None
    ELSE Some(t[CHOOSE k \in DOMAIN t : \A j \in DOMAIN t : k <= j])

\* "Get current ...": SELECT ... WHERE id = ?1 with query_row, the row or
\* None for the Err (QueryReturnedNoRows) that `?` returns.
Current(t, id) == IF id \in DOMAIN t THEN Some(t[id]) ELSE None

\* Mutant: the touch statement left out.
TouchLeftOut(ms, id, now) == ms

\* UPDATE brain_maps SET updated_at = ?1 WHERE id = ?2 (no row: no change)
Touch(ms, id, now) ==
    IF id \in DOMAIN ms THEN [ms EXCEPT ![id].updated_at = now] ELSE ms

\* ------------------------------------------------------------ the clock
\* Utc::now() as a command reads it: time passes between commands and never
\* runs backwards, so each command reads a later instant than the one before.
Now == clock

\* A run is at most MaxSteps commands long, and it ends with the first
\* command that leaves the store as it found it (an error before any write,
\* a delete or update that matches no row): the commands that could follow
\* would start from the store the run had already reached.
Running ==
    /\ clock <= MaxSteps
    /\ last.cmd = "none" \/ Store # pre

\* ------------------------------------------------------------- callers
\* The threads commands are invoked on.
Threads == 1..MaxThreads

\* A thread that is in no command.  pc: idle, waiting (in db.conn.lock()),
\* running (in the body), exit (at a return, `conn` still in scope).  guard:
\* the thread owns the MutexGuard `conn`.  foreign: another thread issued a
\* statement while this one owned the guard.  A thread in a command has its
\* arguments and locals as well: cmd, id, data, now; k, the statements
\* issued; found, what the first query returned; snap, the store as it was
\* when the lock was acquired; blocked, the mutex was taken at the invocation.
Idle == [pc |-> "idle", result |-> "none", guard |-> FALSE, foreign |-> FALSE]

\* ---------------------------------------------------------------- Init
NoCommand == [cmd |-> "none", id |-> 0, data |-> None, now |-> 1,
              result |-> "ok", ret |-> None]

Init ==
    /\ brain_maps = <<>>
    /\ brain_map_nodes = <<>>
    /\ brain_map_connections = <<>>
    /\ clock = 1
    /\ nextMap = 1
    /\ nextNode = 1
    /\ nextConn = 1
    /\ notes = <<>>
    /\ folders = <<>>
    /\ events = <<>>
    /\ nextNote = 1
    /\ nextFolder = 1
    /\ nextEvent = 1
    /\ last = NoCommand
    /\ pre = [maps |-> <<>>, nodes |-> <<>>, conns |-> <<>>,
              notes |-> <<>>, folders |-> <<>>, events |-> <<>>]
    /\ mutex = FALSE
    /\ threads = [t \in Threads |-> Idle]

\* What every command does besides its statements: the record of the call
\* and the snapshot of the store it started from.  A command that runs as
\* one action has released on return the lock it took on entry.
Called(cmd, id, data, now, result, ret) ==
    /\ last' = [cmd |-> cmd, id |-> id, data |-> data, now |-> now,
                result |-> result, ret |-> ret]
    /\ pre' = Store
    /\ clock' = clock + 1
    /\ UNCHANGED <<mutex, threads>>

\* ------------------------------------------------------------- inputs
\* An identifier a caller can pass: one handed out so far (its row may be
\* gone by now) or NoRow, an identifier that was never handed out.  The code
\* treats all identifiers without a row alike.
NoRow == 0

MapArgs == 1..(nextMap - 1) \cup {NoRow}

NodeArgs == 1..(nextNode - 1) \cup {NoRow}

ConnArgs == 1..(nextConn - 1) \cup {NoRow}

OptNodeArgs == {None} \cup {Some(n) : n \in NodeArgs}

NoteArgs == 1..(nextNote - 1) \cup {NoRow}

FolderArgs == 1..(nextFolder - 1) \cup {NoRow}

EventArgs == 1..(nextEvent - 1) \cup {NoRow}

OptFolderArgs == {None} \cup {Some(f) : f \in FolderArgs}

\* hard: Option<bool> of the delete commands
Hard == {None, Some(FALSE), Some(TRUE)}

\* NoteCreate (models.rs)
NoteCreate == [title : {None}, folder_id : OptFolderArgs]

\* NoteUpdate (models.rs): the empty patch, new content, a new folder
NoteUpdate ==
    {[title |-> None, folder_id |-> None, is_pinned |-> None],
     [title |-> Some("n"), folder_id |-> None, is_pinned |-> Some(TRUE)]}
    \cup {[title |-> None, folder_id |-> Some(f), is_pinned |-> None] :
             f \in FolderArgs}

\* FolderCreate (models.rs)
FolderCreate == [name : {"f"}, parent_id : OptFolderArgs]

\* FolderUpdate (models.rs)
FolderUpdate ==
    {[name |-> None, parent_id |-> None], [name |-> Some("g"), parent_id |-> None]}
    \cup {[name |-> None, parent_id |-> Some(f)] : f \in FolderArgs}

\* EventCreate (models.rs)
EventCreate == [title : {"e"}, start_time : {None, Some(1)}]

\* EventUpdate (models.rs)
EventUpdate == [title : {None, Some("d")}, start_time : {None, Some(2)}]

\* BrainMapCreate (models.rs): title and center_node_text, absent or given
BrainMapCreate == {[title |-> None, center_node_text |-> None],
                   [title |-> Some("T"), center_node_text |-> Some("C")]}

\* BrainMapNodeCreate (models.rs); at most one identifier of a seed is NoRow
BrainMapNodeCreate ==
    {d \in [brain_map_id : MapArgs, parent_node_id : OptNodeArgs,
             label : {"a"}, x : {None}, y : {None}, linked_folder_id : {None}] :
        d.brain_map_id # NoRow \/ d.parent_node_id # Some(NoRow)}

\* BrainMapNodeUpdate (models.rs): the empty patch, a new parent, new content
BrainMapNodeUpdate ==
    {[parent_node_id |-> p, label |-> None, x |-> None, y |-> None,
      linked_folder_id |-> None] : p \in OptNodeArgs}
    \cup {[parent_node_id |-> None, label |-> Some("b"), x |-> Some(1),
           y |-> None, linked_folder_id |-> None]}
    \cup {[parent_node_id |-> None, label |-> None, x |-> None, y |-> None,
           linked_folder_id |-> Some(f)] : f \in DOMAIN folders}

\* BrainMapUpdate (models.rs): the empty patch, a new title, a new center
\* (the node identifier handed out last, or NoRow before the first)
BrainMapUpdate ==
    {[title |-> None, center_node_id |-> None, center_node_text |-> None],
     [title |-> Some("T"), center_node_id |-> None, center_node_text |-> None],
     [title |-> None, center_node_id |-> Some(nextNode - 1),
      center_node_text |-> Some("X")]}

\* BrainMapConnectionCreate (models.rs); at most one identifier of a seed is
\* NoRow
BrainMapConnectionCreate ==
    {d \in [brain_map_id : MapArgs, source_node_id : NodeArgs,
             target_node_id : NodeArgs, style : {None}] :
        Cardinality({f \in {"brain_map_id", "source_node_id", "target_node_id"} :
                        d[f] = NoRow}) <= 1}

\* The identifiers a batch names: NoRow and the two handed out last.
PositionArgs == {n \in NodeArgs : n = NoRow \/ n >= nextNode - 2}

\* Vec<(String, f64, f64)> of update_node_positions: item i of a batch
\* carries the position (i, i), so that two items for one node differ.
PositionUpdates ==
    UNION {{[i \in 1..k |-> <<ids[i], i, i>>] : ids \in [1..k -> PositionArgs]} :
              k \in 0..MaxBatch}

\* ------------------------------------------------------------ commands
\* `fail` names the statement (2, 3, ...) on which the store reports an
\* error (conn.execute(...) returning Err, passed on by `?`); 0 is a run with
\* no store error.  An error on a command's first statement leaves the store
\* as it was, as a call that writes nothing does; the failures enumerated
\* are those that follow a statement that has written.
StoreFailure == {0, 2}

\* Mutant: the map is built before its center node has an identifier.
NewBrainMapWithoutCenter(map_id, center_node_id, data, now) ==
    [id |-> map_id,
     title |-> unwrap_or(data.title, "Untitled Map"),
     center_node_id |-> None,
     center_node_text |-> unwrap_or(data.center_node_text, "Central Idea"),
     created_at |-> now, updated_at |-> now, deleted_at |-> None]

\* The BrainMap value built by create_brain_map.
NewBrainMap(map_id, center_node_id, data, now) ==
    [id |-> map_id,
     title |-> unwrap_or(data.title, "Untitled Map"),
     center_node_id |-> Some(center_node_id),
     center_node_text |-> unwrap_or(data.center_node_text, "Central Idea"),
     created_at |-> now, updated_at |-> now, deleted_at |-> None]

\* The center BrainMapNode built by create_brain_map.
CenterNode(map_id, center_node_id, data, now) ==
    [id |-> center_node_id, brain_map_id |-> map_id, parent_node_id |-> None,
     label |-> unwrap_or(data.center_node_text, "Central Idea"),
     x |-> 0, y |-> 0, linked_folder_id |-> None, layer |-> CenterLayer,
     created_at |-> now, updated_at |-> now]

\* The two INSERTs of create_brain_map, each committed as it is executed:
\* the store after the first alone (the second failed) or after both.
BrainMapInserted(st, brain_map, center_node, fail) ==
    LET maps1 == Put(st.maps, brain_map.id, brain_map)
    IN  IF fail = 2 \/ ~NodeRowAccepted(maps1, st.nodes, center_node)
        THEN [st EXCEPT !.maps = maps1]
        ELSE [st EXCEPT !.maps = maps1,
                        !.nodes = Put(st.nodes, center_node.id, center_node)]

create_brain_map ==
    /\ Running
    /\ UNCHANGED flat
    /\ \E data \in BrainMapCreate, fail \in StoreFailure :
        /\ nextMap <= MaxMaps
        /\ nextNode <= MaxNodes
        /\ LET now == Now
               brain_map == NewBrainMap(nextMap, nextNode, data, now)
               center_node == CenterNode(nextMap, nextNode, data, now)
               after == BrainMapInserted(Store, brain_map, center_node, fail)
               ok == center_node.id \in DOMAIN after.nodes
           IN  /\ brain_maps' = after.maps
               /\ brain_map_nodes' = after.nodes
               /\ nextMap' = nextMap + 1
               /\ nextNode' = IF ok THEN nextNode + 1 ELSE nextNode
               /\ UNCHANGED <<brain_map_connections, nextConn>>
               /\ IF ok
                  THEN Called("create_brain_map", nextMap, data, now, "ok",
                              Some([brain_map |-> brain_map,
                                    nodes |-> <<center_node>>,
                                    connections |-> <<>>]))
                  ELSE Called("create_brain_map", nextMap, data, now, "err", None)

\* The BrainMap value `updated` built by update_brain_map.
UpdatedBrainMap(current, data, now) ==
    [id |-> current.id,
     title |-> unwrap_or(data.title, current.title),
     center_node_id |-> or(data.center_node_id, current.center_node_id),
     center_node_text |-> unwrap_or(data.center_node_text, current.center_node_text),
     created_at |-> current.created_at,
     updated_at |-> now,
     deleted_at |-> current.deleted_at]

\* Mutant: the UPDATE also writes deleted_at = NULL.
BrainMapRowUpdatedUndeleting(row, updated) ==
    [row EXCEPT !.title = updated.title,
                !.center_node_id = updated.center_node_id,
                !.center_node_text = updated.center_node_text,
                !.updated_at = updated.updated_at,
                !.deleted_at = None]

\* UPDATE brain_maps SET title, center_node_id, center_node_text, ...,
\* updated_at WHERE id: the columns the statement names come from `updated`.
BrainMapRowUpdated(row, updated) ==
    [row EXCEPT !.title = updated.title,
                !.center_node_id = updated.center_node_id,
                !.center_node_text = updated.center_node_text,
                !.updated_at = updated.updated_at]

update_brain_map ==
    /\ Running
    /\ UNCHANGED flat
    /\ \E id \in MapArgs, data \in BrainMapUpdate :
        /\ UNCHANGED <<brain_map_nodes, brain_map_connections,
                       nextMap, nextNode, nextConn>>
        /\ IF Current(brain_maps, id) = None
           THEN \* query_row finds no row: `?` returns
                /\ UNCHANGED brain_maps
                /\ Called("update_brain_map", id, data, Now, "err", None)
           ELSE LET current == Current(brain_maps, id)[1]
                    updated == UpdatedBrainMap(current, data, Now)
                IN  /\ brain_maps' = [brain_maps EXCEPT ![updated.id] =
                                        BrainMapRowUpdated(current, updated)]
                    /\ Called("update_brain_map", id, data, Now, "ok",
                              Some(updated))

\* DELETE FROM brain_maps WHERE id = ?1, with the foreign-key actions of the
\* two child tables.
BrainMapDeleted(st, id) ==
    LET M == {id} \cap DOMAIN st.maps
        D == NodesOfMaps(st.nodes, M)
    IN  [st EXCEPT !.maps = Remove(st.maps, M),
                   !.nodes = NodesAfterDelete(st.nodes, D),
                   !.conns = Remove(st.conns, ConnectionsOf(st.conns, M, D))]

\* Mutant: the soft branch issues the DELETE of the hard branch.
BrainMapSoftDeletedAsHard(st, id, now) == BrainMapDeleted(st, id)

\* UPDATE brain_maps SET deleted_at = ?1 WHERE id = ?2
BrainMapSoftDeleted(st, id, now) ==
    IF id \in DOMAIN st.maps
    THEN [st EXCEPT !.maps[id].deleted_at = Some(now)]
    ELSE st

delete_brain_map ==
    /\ Running
    /\ UNCHANGED flat
    /\ \E id \in MapArgs, hard \in Hard :
        LET after == IF unwrap_or(hard, FALSE)
                     THEN BrainMapDeleted(Store, id)
                     ELSE BrainMapSoftDeleted(Store, id, Now)
        IN  /\ brain_maps' = after.maps
            /\ brain_map_nodes' = after.nodes
            /\ brain_map_connections' = after.conns
            /\ UNCHANGED <<nextMap, nextNode, nextConn>>
            /\ Called("delete_brain_map", id, hard, Now, "ok", None)

\* Mutant: the parent's layer is taken as it is, without the + 1.
DerivedLayerNotIncremented(ns, parent_node_id) ==
    IF parent_node_id # None
    THEN IF parent_node_id[1] \in DOMAIN ns
         THEN ns[parent_node_id[1]].layer
         ELSE 0
    ELSE TopLayer

\* Mutant: the parent is not looked up, every node is a top-level node.
DerivedLayerIgnoringParent(ns, parent_node_id) == TopLayer

\* "Calculate layer based on parent": query_row(...).unwrap_or(0) + 1, or 1.
DerivedLayer(ns, parent_node_id) ==
    IF parent_node_id # None
    THEN (IF parent_node_id[1] \in DOMAIN ns
          THEN ns[parent_node_id[1]].layer
          ELSE 0) + 1
    ELSE TopLayer

\* The BrainMapNode value built by create_brain_map_node.
NewNode(id, data, layer, now) ==
    [id |-> id, brain_map_id |-> data.brain_map_id,
     parent_node_id |-> data.parent_node_id,
     label |-> data.label,
     x |-> unwrap_or(data.x, 0), y |-> unwrap_or(data.y, 0),
     linked_folder_id |-> data.linked_folder_id,
     layer |-> layer,
     created_at |-> now, updated_at |-> now]

create_brain_map_node ==
    /\ Running
    /\ UNCHANGED flat
    /\ \E data \in BrainMapNodeCreate, fail \in StoreFailure :
        /\ nextNode <= MaxNodes
        /\ UNCHANGED <<brain_map_connections, nextMap, nextConn>>
        /\ LET now == Now
               layer == DerivedLayer(brain_map_nodes, data.parent_node_id)
               node == NewNode(nextNode, data, layer, now)
           IN  IF ~NodeRowAccepted(brain_maps, brain_map_nodes, node)
               THEN \* the INSERT fails: `?` returns
                    /\ fail = 0
                    /\ UNCHANGED <<brain_maps, brain_map_nodes, nextNode>>
                    /\ Called("create_brain_map_node", nextNode, data, now,
                              "err", None)
               ELSE /\ brain_map_nodes' = Put(brain_map_nodes, nextNode, node)
                    /\ nextNode' = nextNode + 1
                    /\ IF fail = 2
                       THEN \* the touch fails: `?` returns, the node stays
                            /\ UNCHANGED brain_maps
                            /\ Called("create_brain_map_node", nextNode, data,
                                      now, "err", None)
                       ELSE /\ brain_maps' = Touch(brain_maps, node.brain_map_id, now)
                            /\ Called("create_brain_map_node", nextNode, data,
                                      now, "ok", Some(node))

\* Mutant: a field the patch leaves absent is stored as absent.
UpdatedNodeOverwriting(current, data, now) ==
    [id |-> current.id,
     brain_map_id |-> current.brain_map_id,
     parent_node_id |-> data.parent_node_id,
     label |-> unwrap_or(data.label, current.label),
     x |-> unwrap_or(data.x, current.x),
     y |-> unwrap_or(data.y, current.y),
     linked_folder_id |-> or(data.linked_folder_id, current.linked_folder_id),
     layer |-> current.layer,
     created_at |-> current.created_at,
     updated_at |-> now]

\* Mutant: a patch that names the node itself as its parent leaves the
\* parent as stored.
UpdatedNodeNotOwnParent(current, data, now) ==
    [id |-> current.id,
     brain_map_id |-> current.brain_map_id,
     parent_node_id |-> IF data.parent_node_id = Some(current.id)
                        THEN current.parent_node_id
                        ELSE or(data.parent_node_id, current.parent_node_id),
     label |-> unwrap_or(data.label, current.label),
     x |-> unwrap_or(data.x, current.x),
     y |-> unwrap_or(data.y, current.y),
     linked_folder_id |-> or(data.linked_folder_id, current.linked_folder_id),
     layer |-> current.layer,
     created_at |-> current.created_at,
     updated_at |-> now]

\* The BrainMapNode value `updated` built by update_brain_map_node.
UpdatedNode(current, data, now) ==
    [id |-> current.id,
     brain_map_id |-> current.brain_map_id,
     parent_node_id |-> or(data.parent_node_id, current.parent_node_id),
     label |-> unwrap_or(data.label, current.label),
     x |-> unwrap_or(data.x, current.x),
     y |-> unwrap_or(data.y, current.y),
     linked_folder_id |-> or(data.linked_folder_id, current.linked_folder_id),
     layer |-> current.layer,
     created_at |-> current.created_at,
     updated_at |-> now]

\* Mutant: the UPDATE also writes layer, derived again from the new parent.
NodeRowUpdatedRelayered(row, updated) ==
    [row EXCEPT !.parent_node_id = updated.parent_node_id,
                !.label = updated.label,
                !.x = updated.x, !.y = updated.y,
                !.linked_folder_id = updated.linked_folder_id,
                !.layer = DerivedLayer(brain_map_nodes, updated.parent_node_id),
                !.updated_at = updated.updated_at]

\* UPDATE brain_map_nodes SET parent_node_id, label, ..., updated_at WHERE id:
\* the columns the statement names come from `updated`, the others
\* (brain_map_id, layer, created_at) stay as stored.
NodeRowUpdated(row, updated) ==
    [row EXCEPT !.parent_node_id = updated.parent_node_id,
                !.label = updated.label,
                !.x = updated.x, !.y = updated.y,
                !.linked_folder_id = updated.linked_folder_id,
                !.updated_at = updated.updated_at]

update_brain_map_node ==
    /\ Running
    /\ UNCHANGED flat
    /\ \E id \in NodeArgs, data \in BrainMapNodeUpdate, fail \in StoreFailure :
        /\ UNCHANGED <<brain_map_connections, nextMap, nextNode, nextConn>>
        /\ IF Current(brain_map_nodes, id) = None
           THEN \* query_row finds no row: `?` returns
                /\ fail = 0
                /\ UNCHANGED <<brain_maps, brain_map_nodes>>
                /\ Called("update_brain_map_node", id, data, Now, "err", None)
           ELSE LET now == Now
                    current == Current(brain_map_nodes, id)[1]
                    updated == UpdatedNode(current, data, now)
                    row == NodeRowUpdated(current, updated)
                IN  IF ~NodeRowAccepted(brain_maps, brain_map_nodes, row)
                    THEN \* the UPDATE fails: `?` returns
                         /\ fail = 0
                         /\ UNCHANGED <<brain_maps, brain_map_nodes>>
                         /\ Called("update_brain_map_node", id, data, now,
                                   "err", None)
                    ELSE /\ brain_map_nodes' =
                              [brain_map_nodes EXCEPT ![updated.id] = row]
                         /\ IF fail = 2
                            THEN \* the touch fails: `?` returns
                                 /\ UNCHANGED brain_maps
                                 /\ Called("update_brain_map_node", id, data,
                                           now, "err", None)
                            ELSE /\ brain_maps' =
                                      Touch(brain_maps, updated.brain_map_id, now)
                                 /\ Called("update_brain_map_node", id, data,
                                           now, "ok", Some(updated))

\* Mutant: the connections at the deleted node stay, with the end that named
\* it cleared.
NodeDeletedClearingEnds(st, id) ==
    LET D == {id} \cap DOMAIN st.nodes
    IN  [st EXCEPT !.nodes = NodesAfterDelete(st.nodes, D),
                   !.conns = [c \in DOMAIN st.conns |->
                                [st.conns[c] EXCEPT
                                   !.source_node_id = IF @ \in D THEN NoRow ELSE @,
                                   !.target_node_id = IF @ \in D THEN NoRow ELSE @]]]

\* Mutant: the DELETE spares a node that a map names as its center.
NodeDeletedUnlessCenter(st, id) ==
    LET D == {n \in {id} \cap DOMAIN st.nodes :
                 \A m \in DOMAIN st.maps : st.maps[m].center_node_id # Some(n)}
    IN  [st EXCEPT !.nodes = NodesAfterDelete(st.nodes, D),
                   !.conns = Remove(st.conns, ConnectionsOf(st.conns, {}, D))]

\* DELETE FROM brain_map_nodes WHERE id = ?1, with the foreign-key actions
\* on the other node rows and on the connection rows.
NodeDeleted(st, id) ==
    LET D == {id} \cap DOMAIN st.nodes
    IN  [st EXCEPT !.nodes = NodesAfterDelete(st.nodes, D),
                   !.conns = Remove(st.conns, ConnectionsOf(st.conns, {}, D))]

\* Mutant: a node that is not found is taken to belong to the first map.
OwningMapOrFirst(ns, id) ==
    IF id \in DOMAIN ns THEN Some(ns[id].brain_map_id)
    ELSE IF DOMAIN brain_maps = {} THEN None
    ELSE Some(CHOOSE m \in DOMAIN brain_maps : \A k \in DOMAIN brain_maps : m <= k)

\* "Get brain_map_id before deleting": SELECT brain_map_id ... WHERE id = ?1
\* with query_row(...).ok()
OwningMap(ns, id) ==
    IF id \in DOMAIN ns THEN Some(ns[id].brain_map_id) ELSE None

delete_brain_map_node ==
    /\ Running
    /\ UNCHANGED flat
    /\ \E id \in NodeArgs, fail \in StoreFailure :
        /\ UNCHANGED <<nextMap, nextNode, nextConn>>
        /\ LET now == Now
               brain_map_id == OwningMap(brain_map_nodes, id)
               after == NodeDeleted(Store, id)
           IN  /\ brain_map_nodes' = after.nodes
               /\ brain_map_connections' = after.conns
               /\ IF brain_map_id = None
                  THEN /\ fail = 0
                       /\ UNCHANGED brain_maps
                       /\ Called("delete_brain_map_node", id, None, now, "ok", None)
                  ELSE IF fail = 2
                       THEN \* the touch fails: `?` returns, the node is gone
                            /\ UNCHANGED brain_maps
                            /\ Called("delete_brain_map_node", id, None, now,
                                      "err", None)
                       ELSE /\ brain_maps' = Touch(brain_maps, brain_map_id[1], now)
                            /\ Called("delete_brain_map_node", id, None, now,
                                      "ok", None)

\* Mutant: a node named by an earlier item of the batch keeps that item's
\* position.
RECURSIVE PositionsAppliedOnce(_, _, _, _)
PositionsAppliedOnce(ns, updates, k, now) ==
    IF k = 0 THEN ns
    ELSE LET done == PositionsAppliedOnce(ns, updates, k - 1, now)
             id == updates[k][1]
         IN  IF id \in DOMAIN done /\ \A j \in 1..(k - 1) : updates[j][1] # id
             THEN [done EXCEPT ![id].x = updates[k][2],
                               ![id].y = updates[k][3],
                               ![id].updated_at = now]
             ELSE done

\* The first k statements of the loop of update_node_positions:
\* UPDATE brain_map_nodes SET x = ?1, y = ?2, updated_at = ?3 WHERE id = ?4
RECURSIVE PositionsApplied(_, _, _, _)
PositionsApplied(ns, updates, k, now) ==
    IF k = 0 THEN ns
    ELSE LET done == PositionsApplied(ns, updates, k - 1, now)
             id == updates[k][1]
         IN  IF id \in DOMAIN done
             THEN [done EXCEPT ![id].x = updates[k][2],
                               ![id].y = updates[k][3],
                               ![id].updated_at = now]
             ELSE done

update_node_positions ==
    /\ Running
    /\ UNCHANGED flat
    /\ \E updates \in PositionUpdates :
      \E fail \in {0} \cup 2..Len(updates) :
        /\ UNCHANGED <<brain_maps, brain_map_connections,
                       nextMap, nextNode, nextConn>>
        /\ IF fail = 0
           THEN /\ brain_map_nodes' =
                     PositionsApplied(brain_map_nodes, updates, Len(updates), Now)
                /\ Called("update_node_positions", 0, updates, Now, "ok", None)
           ELSE \* statement `fail` returns Err: the earlier ones stay
                /\ brain_map_nodes' =
                     PositionsApplied(brain_map_nodes, updates, fail - 1, Now)
                /\ Called("update_node_positions", 0, updates, Now, "err", None)

\* The BrainMapConnection value built by create_brain_map_connection.
NewConnection(id, data, now) ==
    [id |-> id, brain_map_id |-> data.brain_map_id,
     source_node_id |-> data.source_node_id,
     target_node_id |-> data.target_node_id,
     style |-> or(data.style, Some("solid")),
     created_at |-> now]

create_brain_map_connection ==
    /\ Running
    /\ UNCHANGED flat
    /\ \E data \in BrainMapConnectionCreate, fail \in StoreFailure :
        /\ nextConn <= MaxConns
        /\ UNCHANGED <<brain_map_nodes, nextMap, nextNode>>
        /\ LET now == Now
               connection == NewConnection(nextConn, data, now)
           IN  IF ~ConnectionRowAccepted(brain_maps, brain_map_nodes, connection)
               THEN \* the INSERT fails: `?` returns
                    /\ fail = 0
                    /\ UNCHANGED <<brain_maps, brain_map_connections, nextConn>>
                    /\ Called("create_brain_map_connection", nextConn, data, now,
                              "err", None)
               ELSE /\ brain_map_connections' =
                         Put(brain_map_connections, nextConn, connection)
                    /\ nextConn' = nextConn + 1
                    /\ IF fail = 2
                       THEN \* the touch fails: `?` returns, the row stays
                            /\ UNCHANGED brain_maps
                            /\ Called("create_brain_map_connection", nextConn,
                                      data, now, "err", None)
                       ELSE /\ brain_maps' = Touch(brain_maps, data.brain_map_id, now)
                            /\ Called("create_brain_map_connection", nextConn,
                                      data, now, "ok", Some(connection))

\* Mutant: connection delete made symmetric with node delete, touching the
\* owning map.
ConnectionDeletedTouching(st, id) ==
    [st EXCEPT !.conns = Remove(st.conns, {id} \cap DOMAIN st.conns),
               !.maps = IF id \in DOMAIN st.conns
                        THEN Touch(st.maps, st.conns[id].brain_map_id, Now)
                        ELSE st.maps]

\* DELETE FROM brain_map_connections WHERE id = ?1
ConnectionDeleted(st, id) ==
    [st EXCEPT !.conns = Remove(st.conns, {id} \cap DOMAIN st.conns)]

delete_brain_map_connection ==
    /\ Running
    /\ UNCHANGED flat
    /\ \E id \in ConnArgs :
        LET after == ConnectionDeleted(Store, id)
        IN  /\ brain_maps' = after.maps
            /\ brain_map_nodes' = after.nodes
            /\ brain_map_connections' = after.conns
            /\ UNCHANGED <<nextMap, nextNode, nextConn>>
            /\ Called("delete_brain_map_connection", id, None, Now, "ok", None)

\* ------------------------------------------------- the flat services
\* The Note value built by create_note.
NewNote(id, data, now) ==
    [id |-> id, title |-> unwrap_or(data.title, ""),
     folder_id |-> data.folder_id, is_pinned |-> FALSE,
     created_at |-> now, updated_at |-> now, deleted_at |-> None]

create_note ==
    /\ Running
    /\ UNCHANGED brain
    /\ \E data \in NoteCreate :
        /\ nextNote <= MaxNotes
        /\ UNCHANGED <<folders, events, nextFolder, nextEvent>>
        /\ LET note == NewNote(nextNote, data, Now)
           IN  IF ~NoteRowAccepted(folders, note)
               THEN \* the INSERT fails: `?` returns
                    /\ UNCHANGED <<notes, nextNote>>
                    /\ Called("create_note", nextNote, data, Now, "err", None)
               ELSE /\ notes' = Put(notes, nextNote, note)
                    /\ nextNote' = nextNote + 1
                    /\ Called("create_note", nextNote, data, Now, "ok", Some(note))

\* The Note value `updated` built by update_note.
UpdatedNote(current, data, now) ==
    [id |-> current.id,
     title |-> unwrap_or(data.title, current.title),
     folder_id |-> or(data.folder_id, current.folder_id),
     is_pinned |-> unwrap_or(data.is_pinned, current.is_pinned),
     created_at |-> current.created_at,
     updated_at |-> now,
     deleted_at |-> current.deleted_at]

\* UPDATE notes SET title, content, folder_id, tags, is_pinned, updated_at
\* WHERE id
NoteRowUpdated(row, updated) ==
    [row EXCEPT !.title = updated.title,
                !.folder_id = updated.folder_id,
                !.is_pinned = updated.is_pinned,
                !.updated_at = updated.updated_at]

update_note ==
    /\ Running
    /\ UNCHANGED brain
    /\ \E id \in NoteArgs, data \in NoteUpdate :
        /\ UNCHANGED <<folders, events, nextNote, nextFolder, nextEvent>>
        /\ IF Current(notes, id) = None
           THEN \* query_row finds no row: `?` returns
                /\ UNCHANGED notes
                /\ Called("update_note", id, data, Now, "err", None)
           ELSE LET current == Current(notes, id)[1]
                    updated == UpdatedNote(current, data, Now)
                    row == NoteRowUpdated(current, updated)
                IN  IF ~NoteRowAccepted(folders, row)
                    THEN \* the UPDATE fails: `?` returns
                         /\ UNCHANGED notes
                         /\ Called("update_note", id, data, Now, "err", None)
                    ELSE /\ notes' = [notes EXCEPT ![updated.id] = row]
                         /\ Called("update_note", id, data, Now, "ok",
                                   Some(updated))

\* DELETE FROM <table> WHERE id = ?1 of delete_note and delete_event
RowDeleted(t, id) == Remove(t, {id} \cap DOMAIN t)

\* UPDATE <table> SET deleted_at = ?1 WHERE id = ?2 of delete_note and
\* delete_event
RowSoftDeleted(t, id, now) ==
    IF id \in DOMAIN t THEN [t EXCEPT ![id].deleted_at = Some(now)] ELSE t

delete_note ==
    /\ Running
    /\ UNCHANGED brain
    /\ \E id \in NoteArgs, hard \in Hard :
        /\ UNCHANGED <<folders, events, nextNote, nextFolder, nextEvent>>
        /\ notes' = IF unwrap_or(hard, FALSE)
                    THEN RowDeleted(notes, id)
                    ELSE RowSoftDeleted(notes, id, Now)
        /\ Called("delete_note", id, hard, Now, "ok", None)

\* The Folder value built by create_folder.
NewFolder(id, data, now) ==
    [id |-> id, name |-> data.name, parent_id |-> data.parent_id,
     created_at |-> now, updated_at |-> now]

create_folder ==
    /\ Running
    /\ UNCHANGED brain
    /\ \E data \in FolderCreate :
        /\ nextFolder <= MaxFolders
        /\ UNCHANGED <<notes, events, nextNote, nextEvent>>
        /\ LET folder == NewFolder(nextFolder, data, Now)
           IN  IF ~FolderRowAccepted(folders, folder)
               THEN \* the INSERT fails: `?` returns
                    /\ UNCHANGED <<folders, nextFolder>>
                    /\ Called("create_folder", nextFolder, data, Now, "err", None)
               ELSE /\ folders' = Put(folders, nextFolder, folder)
                    /\ nextFolder' = nextFolder + 1
                    /\ Called("create_folder", nextFolder, data, Now, "ok",
                              Some(folder))

\* The Folder value `updated` built by update_folder.
UpdatedFolder(current, data, now) ==
    [id |-> current.id,
     name |-> unwrap_or(data.name, current.name),
     parent_id |-> or(data.parent_id, current.parent_id),
     created_at |-> current.created_at,
     updated_at |-> now]

\* UPDATE folders SET name, parent_id, color, icon, updated_at WHERE id
FolderRowUpdated(row, updated) ==
    [row EXCEPT !.name = updated.name,
                !.parent_id = updated.parent_id,
                !.updated_at = updated.updated_at]

update_folder ==
    /\ Running
    /\ UNCHANGED brain
    /\ \E id \in FolderArgs, data \in FolderUpdate :
        /\ UNCHANGED <<notes, events, nextNote, nextFolder, nextEvent>>
        /\ IF Current(folders, id) = None
           THEN \* query_row finds no row: `?` returns
                /\ UNCHANGED folders
                /\ Called("update_folder", id, data, Now, "err", None)
           ELSE LET current == Current(folders, id)[1]
                    updated == UpdatedFolder(current, data, Now)
                    row == FolderRowUpdated(current, updated)
                IN  IF ~FolderRowAccepted(folders, row)
                    THEN \* the UPDATE fails: `?` returns
                         /\ UNCHANGED folders
                         /\ Called("update_folder", id, data, Now, "err", None)
                    ELSE /\ folders' = [folders EXCEPT ![updated.id] = row]
                         /\ Called("update_folder", id, data, Now, "ok",
                                   Some(updated))

\* UPDATE notes SET folder_id = NULL WHERE folder_id = ?1
NotesMovedOut(ns, id) ==
    [n \in DOMAIN ns |-> IF ns[n].folder_id = Some(id)
                         THEN [ns[n] EXCEPT !.folder_id = None]
                         ELSE ns[n]]

\* Mutant: linked_folder_id without ON DELETE SET NULL taking effect.
LinksKept(ns, id) == ns

\* brain_map_nodes.linked_folder_id ... ON DELETE SET NULL: the node rows
\* after the folder row id is deleted.
LinksCleared(ns, id) ==
    [n \in DOMAIN ns |->
        IF ForeignKeys /\ id \in DOMAIN folders /\ ns[n].linked_folder_id = Some(id)
        THEN [ns[n] EXCEPT !.linked_folder_id = None]
        ELSE ns[n]]

\* DELETE FROM folders WHERE id = ?1, with parent_id ... ON DELETE SET NULL
FolderDeleted(fs, id) ==
    [f \in DOMAIN fs \ {id} |->
        IF ForeignKeys /\ fs[f].parent_id = Some(id)
        THEN [fs[f] EXCEPT !.parent_id = None]
        ELSE fs[f]]

delete_folder ==
    /\ Running
    /\ UNCHANGED <<brain_maps, brain_map_connections, nextMap, nextNode, nextConn>>
    /\ \E id \in FolderArgs, fail \in StoreFailure :
        /\ UNCHANGED <<events, nextNote, nextFolder, nextEvent>>
        /\ notes' = NotesMovedOut(notes, id)
        /\ IF fail = 2
           THEN \* the DELETE fails: `?` returns, the notes stay moved
                /\ UNCHANGED <<folders, brain_map_nodes>>
                /\ Called("delete_folder", id, None, Now, "err", None)
           ELSE /\ folders' = FolderDeleted(folders, id)
                /\ brain_map_nodes' = LinksCleared(brain_map_nodes, id)
                /\ Called("delete_folder", id, None, Now, "ok", None)

\* The Event value built by create_event.
NewEvent(id, data, now) ==
    [id |-> id, title |-> data.title, start_time |-> data.start_time,
     created_at |-> now, updated_at |-> now, deleted_at |-> None]

create_event ==
    /\ Running
    /\ UNCHANGED brain
    /\ \E data \in EventCreate :
        /\ nextEvent <= MaxEvents
        /\ UNCHANGED <<notes, folders, nextNote, nextFolder>>
        /\ LET event == NewEvent(nextEvent, data, Now)
           IN  /\ events' = Put(events, nextEvent, event)
               /\ nextEvent' = nextEvent + 1
               /\ Called("create_event", nextEvent, data, Now, "ok", Some(event))

\* The Event value `updated` built by update_event.
UpdatedEvent(current, data, now) ==
    [id |-> current.id,
     title |-> unwrap_or(data.title, current.title),
     start_time |-> or(data.start_time, current.start_time),
     created_at |-> current.created_at,
     updated_at |-> now,
     deleted_at |-> current.deleted_at]

\* UPDATE events SET title, ..., start_time, ..., updated_at WHERE id
EventRowUpdated(row, updated) ==
    [row EXCEPT !.title = updated.title,
                !.start_time = updated.start_time,
                !.updated_at = updated.updated_at]

update_event ==
    /\ Running
    /\ UNCHANGED brain
    /\ \E id \in EventArgs, data \in EventUpdate :
        /\ UNCHANGED <<notes, folders, nextNote, nextFolder, nextEvent>>
        /\ IF Current(events, id) = None
           THEN \* query_row finds no row: `?` returns
                /\ UNCHANGED events
                /\ Called("update_event", id, data, Now, "err", None)
           ELSE LET current == Current(events, id)[1]
                    updated == UpdatedEvent(current, data, Now)
                IN  /\ events' = [events EXCEPT ![updated.id] =
                                    EventRowUpdated(current, updated)]
                    /\ Called("update_event", id, data, Now, "ok", Some(updated))

delete_event ==
    /\ Running
    /\ UNCHANGED brain
    /\ \E id \in EventArgs, hard \in Hard :
        /\ UNCHANGED <<notes, folders, nextNote, nextFolder, nextEvent>>
        /\ events' = IF unwrap_or(hard, FALSE)
                     THEN RowDeleted(events, id)
                     ELSE RowSoftDeleted(events, id, Now)
        /\ Called("delete_event", id, hard, Now, "ok", None)

\* ------------------------------------------------------------- queries
\* ORDER BY on two integer sort keys: a sorts before b.
LexLess(a, b) == a[1] < b[1] \/ (a[1] = b[1] /\ a[2] < b[2])

\* The keys of the rows S in the order ORDER BY gives them, key[k] being the
\* sort keys of row k.  Among rows with equal keys the order is the store's
\* to choose.
RECURSIVE OrderBy(_, _)
OrderBy(S, key) ==
    IF S = {} THEN <<>>
    ELSE LET first == CHOOSE x \in S : \A y \in S : ~LexLess(key[y], key[x])
         IN  <<first>> \o OrderBy(S \ {first}, key)

\* The rows of table t with the keys ks, in that order (query_map, collect).
Rows(t, ks) == [i \in 1..Len(ks) |-> t[ks[i]]]

\* Mutant: the listing with ORDER BY updated_at ASC.
get_brain_maps_oldest_first ==
    LET live == {m \in DOMAIN brain_maps : brain_maps[m].deleted_at = None}
    IN  Rows(brain_maps,
             OrderBy(live, [m \in live |-> <<brain_maps[m].updated_at, 0>>]))

\* get_brain_maps: ... WHERE deleted_at IS NULL ORDER BY updated_at DESC
get_brain_maps ==
    LET live == {m \in DOMAIN brain_maps : brain_maps[m].deleted_at = None}
    IN  Rows(brain_maps,
             OrderBy(live, [m \in live |-> <<0 - brain_maps[m].updated_at, 0>>]))

\* Mutant: the node query with ORDER BY created_at ASC alone.
NodesOfMapInOrderOfCreation(id) ==
    LET own == {n \in DOMAIN brain_map_nodes :
                   brain_map_nodes[n].brain_map_id = id}
    IN  Rows(brain_map_nodes,
             OrderBy(own, [n \in own |-> <<brain_map_nodes[n].created_at, 0>>]))

\* get_brain_map, "Get nodes": ... WHERE brain_map_id = ?1
\* ORDER BY layer ASC, created_at ASC
NodesOfMapInOrder(id) ==
    LET own == {n \in DOMAIN brain_map_nodes :
                   brain_map_nodes[n].brain_map_id = id}
    IN  Rows(brain_map_nodes,
             OrderBy(own, [n \in own |-> <<brain_map_nodes[n].layer,
                                           brain_map_nodes[n].created_at>>]))

\* get_brain_map: None when query_row finds no brain_maps row, else the row,
\* its nodes in order and its connections (no ORDER BY: the rows as a set).
get_brain_map(id) ==
    IF id \in DOMAIN brain_maps
    THEN Some([brain_map |-> brain_maps[id],
               nodes |-> NodesOfMapInOrder(id),
               connections |-> {brain_map_connections[c] :
                   c \in {c \in DOMAIN brain_map_connections :
                             brain_map_connections[c].brain_map_id = id}}])
    ELSE None

\* get_notes: ... WHERE [folder_id = ?1 AND] deleted_at IS NULL
\* ORDER BY is_pinned DESC, updated_at DESC
get_notes(folder_id) ==
    LET live == {n \in DOMAIN notes :
                    /\ notes[n].deleted_at = None
                    /\ folder_id # None => notes[n].folder_id = folder_id}
    IN  Rows(notes,
             OrderBy(live, [n \in live |->
                               <<IF notes[n].is_pinned THEN 0 ELSE 1,
                                 0 - notes[n].updated_at>>]))

\* get_note: query_row(...).ok()
get_note(id) == IF id \in DOMAIN notes THEN Some(notes[id]) ELSE None

\* get_events: ... WHERE deleted_at IS NULL ORDER BY start_time ASC (NULL
\* sorts first)
get_events ==
    LET live == {e \in DOMAIN events : events[e].deleted_at = None}
    IN  Rows(events,
             OrderBy(live, [e \in live |->
                               IF events[e].start_time = None
                               THEN <<0, 0>>
                               ELSE <<1, events[e].start_time[1]>>]))

\* get_event: query_row(...).ok()
get_event(id) == IF id \in DOMAIN events THEN Some(events[id]) ELSE None

\* ---------------------------------------------------------------- Next
\* update_node_positions with a batch of at most one item.
update_node_position == update_node_positions /\ Len(last'.data) <= 1

\* One command at a time: each holds db.conn for its whole body.  Among all
\* the Brain Map commands the batches of update_node_positions are those of
\* at most one item; PositionsSpec has the longer ones.
Next ==
    \/ create_brain_map
    \/ update_brain_map
    \/ delete_brain_map
    \/ create_brain_map_node
    \/ update_brain_map_node
    \/ delete_brain_map_node
    \/ update_node_position
    \/ create_brain_map_connection
    \/ delete_brain_map_connection

Spec == Init /\ [][Next]_vars

\* The commands over the records that can be soft-deleted and over folders:
\* the flat services, and of the Brain Map service the commands that make a
\* map with its center node and a connection, the update commands and the
\* command that deletes a map.
RecordsNext ==
    \/ create_note
    \/ update_note
    \/ delete_note
    \/ create_folder
    \/ update_folder
    \/ delete_folder
    \/ create_event
    \/ update_event
    \/ delete_event
    \/ create_brain_map
    \/ update_brain_map
    \/ update_brain_map_node
    \/ create_brain_map_connection
    \/ delete_brain_map

RecordsSpec == Init /\ [][RecordsNext]_vars

\* The commands that make, move and delete nodes, with batches of up to
\* MaxBatch items.
PositionsNext ==
    \/ create_brain_map
    \/ create_brain_map_node
    \/ delete_brain_map_node
    \/ update_node_positions

PositionsSpec == Init /\ [][PositionsNext]_vars

\* update_brain_map_node with new content for the node.
update_brain_map_node_content ==
    /\ update_brain_map_node
    /\ last'.data.label # None

\* The commands that decide what get_brain_maps and get_brain_map return:
\* those that make and delete maps, nodes and connections, and the node
\* update, which moves its map in the listing.
QueriesNext ==
    \/ create_brain_map
    \/ delete_brain_map
    \/ create_brain_map_node
    \/ update_brain_map_node_content
    \/ delete_brain_map_node
    \/ create_brain_map_connection

QueriesSpec == Init /\ [][QueriesNext]_vars

\* ------------------------------------------------ commands, by statement
\* The commands of concurrent callers.  Each thread runs one command at a
\* time: it waits in db.conn.lock(), owns the guard `conn` from there to its
\* return, and issues its statements one by one through `conn`.
BrainStore == [maps |-> brain_maps, nodes |-> brain_map_nodes,
               conns |-> brain_map_connections]

\* The calls a thread makes, all for the node made last, whose row a
\* delete_brain_map_node of another call may have removed by then:
\* delete_brain_map_node(id); update_brain_map_node(id, data) with new
\* content or with a parent that no row has; update_node_positions(updates)
\* with MaxBatch items.
Calls ==
    {[cmd |-> "delete_brain_map_node", id |-> nextNode - 1, data |-> None]}
    \cup {c \in [cmd : {"update_brain_map_node"}, id : {nextNode - 1},
                  data : BrainMapNodeUpdate] :
             \/ c.data.label # None
             \/ c.data.parent_node_id = Some(NoRow)}
    \cup {[cmd |-> "update_node_positions", id |-> NoRow, data |-> u] :
             u \in {u \in PositionUpdates :
                       /\ Len(u) = MaxBatch
                       /\ \A i \in 1..Len(u) : u[i][1] = nextNode - 1}}

\* The commands the callers have invoked.  Every command reads the clock
\* once, when it has the lock, and ahead of the callers came the
\* nextNode - 1 commands that made a node each.
Invoked ==
    clock - nextNode + Cardinality({u \in Threads : threads[u].pc = "waiting"})

\* Mutant: lock() returns at once, whether or not the mutex is taken.
LockReturnsAlways(m) == TRUE

\* Mutex::lock returns when the mutex is not taken, and blocks until then.
LockReturns(m) == ~m

\* Mutant: the guard is released only by the return at the end of the body.
GuardDroppedOnOk(result) == result = "ok"

\* `conn`, the guard bound by the first line of every command, goes out of
\* scope at every return, the returns of `?` included.
GuardDropped(result) == TRUE

\* The thread's command at a return.
Exit(c, result) == [c EXCEPT !.pc = "exit", !.result = result]

\* The next statement of delete_brain_map_node in thread c on store st:
\* the SELECT of brain_map_id, the DELETE, the touch.
delete_brain_map_node_step(c, st, fail) ==
    CASE c.k = 0 ->
           [thread |-> [c EXCEPT !.k = 1, !.found = OwningMap(st.nodes, c.id)],
            store |-> st]
      [] c.k = 1 ->
           [thread |-> IF c.found = None
                       THEN Exit([c EXCEPT !.k = 2], "ok")
                       ELSE [c EXCEPT !.k = 2],
            store |-> NodeDeleted(st, c.id)]
      [] OTHER ->
           IF fail
           THEN [thread |-> Exit(c, "err"), store |-> st]
           ELSE [thread |-> Exit([c EXCEPT !.k = 3], "ok"),
                 store |-> [st EXCEPT !.maps = Touch(@, c.found[1], c.now)]]

\* The next statement of update_brain_map_node: the SELECT of the current
\* row, the UPDATE, the touch.
update_brain_map_node_step(c, st, fail) ==
    CASE c.k = 0 ->
           IF Current(st.nodes, c.id) = None
           THEN [thread |-> Exit([c EXCEPT !.k = 1], "err"), store |-> st]
           ELSE [thread |-> [c EXCEPT !.k = 1,
                                      !.found = Current(st.nodes, c.id)],
                 store |-> st]
      [] c.k = 1 ->
           LET updated == UpdatedNode(c.found[1], c.data, c.now)
           IN  IF c.id \notin DOMAIN st.nodes
               THEN \* WHERE id = ?14 matches no row
                    [thread |-> [c EXCEPT !.k = 2], store |-> st]
               ELSE LET row == NodeRowUpdated(st.nodes[c.id], updated)
                    IN  IF ~NodeRowAccepted(st.maps, st.nodes, row)
                        THEN [thread |-> Exit(c, "err"), store |-> st]
                        ELSE [thread |-> [c EXCEPT !.k = 2],
                              store |-> [st EXCEPT !.nodes[c.id] = row]]
      [] OTHER ->
           IF fail
           THEN [thread |-> Exit(c, "err"), store |-> st]
           ELSE [thread |-> Exit([c EXCEPT !.k = 3], "ok"),
                 store |-> [st EXCEPT !.maps =
                              Touch(@, c.found[1].brain_map_id, c.now)]]

\* The next turn of the loop of update_node_positions: past the last item
\* the command returns Ok(()), else it issues the item's UPDATE.
update_node_positions_step(c, st, fail) ==
    IF c.k = Len(c.data)
    THEN [thread |-> Exit(c, "ok"), store |-> st]
    ELSE IF fail /\ c.k >= 1
    THEN [thread |-> Exit(c, "err"), store |-> st]
    ELSE [thread |-> [c EXCEPT !.k = c.k + 1],
          store |-> [st EXCEPT !.nodes =
                       PositionsApplied(@, <<c.data[c.k + 1]>>, 1, c.now)]]

\* A caller invokes a command on thread t, the store holding a map, its
\* center node and a child of the center node, or what the callers before
\* left of them.
invoke(t) ==
    /\ threads[t].pc = "idle"
    /\ nextNode = 3
    /\ Invoked < MaxCalls
    /\ \E call \in Calls :
          threads' = [threads EXCEPT ![t] =
                        [pc |-> "waiting", cmd |-> call.cmd, id |-> call.id,
                         data |-> call.data, now |-> 0, k |-> 0,
                         found |-> None, result |-> "none", snap |-> <<>>,
                         guard |-> FALSE, blocked |-> mutex,
                         foreign |-> FALSE]]
    /\ UNCHANGED <<brain, flat, clock, last, pre, mutex>>

\* let conn = db.conn.lock()...; let now = Utc::now().to_rfc3339();
lock(t) ==
    /\ threads[t].pc = "waiting"
    /\ LockReturns(mutex)
    /\ mutex' = TRUE
    /\ threads' = [threads EXCEPT ![t].pc = "running", ![t].guard = TRUE,
                                  ![t].now = Now, ![t].snap = BrainStore]
    /\ clock' = clock + 1
    /\ UNCHANGED <<brain, flat, last, pre>>

\* Thread t issues the next statement of its command.
statement(t) ==
    /\ threads[t].pc = "running"
    /\ \E fail \in BOOLEAN :
          LET c == threads[t]
              r == CASE c.cmd = "delete_brain_map_node" ->
                          delete_brain_map_node_step(c, BrainStore, fail)
                     [] c.cmd = "update_brain_map_node" ->
                          update_brain_map_node_step(c, BrainStore, fail)
                     [] OTHER ->
                          update_node_positions_step(c, BrainStore, fail)
          IN  /\ brain_maps' = r.store.maps
              /\ brain_map_nodes' = r.store.nodes
              /\ brain_map_connections' = r.store.conns
              /\ threads' = [u \in Threads |->
                               IF u = t THEN r.thread
                               ELSE IF threads[u].guard
                               THEN [threads[u] EXCEPT !.foreign = TRUE]
                               ELSE threads[u]]
    /\ UNCHANGED <<flat, nextMap, nextNode, nextConn, clock, last, pre, mutex>>

\* Thread t returns from its command: `conn` goes out of scope.
returns(t) ==
    /\ threads[t].pc = "exit"
    /\ LET dropped == GuardDropped(threads[t].result)
       IN  /\ threads' = [threads EXCEPT ![t] =
                            [Idle EXCEPT !.result = threads[t].result,
                                         !.foreign = threads[t].foreign,
                                         !.guard = ~dropped]]
           /\ mutex' = IF dropped THEN FALSE ELSE mutex
    /\ UNCHANGED <<brain, flat, clock, last, pre>>

\* create_brain_map and create_brain_map_node of a caller that comes before
\* the concurrent ones: the mutex is free and stays free until it returns.
\* They make the store the concurrent callers find: a map, its center node
\* and a child of the center node.
create_brain_map_alone ==
    /\ ~mutex
    /\ \A t \in Threads : threads[t] = Idle
    /\ nextMap = 1
    /\ create_brain_map
    /\ last'.data = [title |-> None, center_node_text |-> None]
    /\ last'.result = "ok"

create_brain_map_node_alone ==
    /\ ~mutex
    /\ \A t \in Threads : threads[t] = Idle
    /\ nextNode = 2
    /\ create_brain_map_node
    /\ last'.data.parent_node_id # None
    /\ last'.result = "ok"

\* Commands of concurrent callers.
LockNext ==
    \/ create_brain_map_alone
    \/ create_brain_map_node_alone
    \/ \E t \in Threads : invoke(t)
    \/ \E t \in Threads : lock(t)
    \/ \E t \in Threads : statement(t)
    \/ \E t \in Threads : returns(t)

LockSpec == Init /\ [][LockNext]_vars

\* The scheduler runs every thread that can run, and a thread that waits in
\* lock() gets the mutex at one of the times it is free.
FairLockSpec ==
    /\ LockSpec
    /\ \A t \in Threads :
          /\ WF_vars(statement(t))
          /\ WF_vars(returns(t))
          /\ SF_vars(lock(t))

\* ======================================================== the claims
\* Each formula speaks of the command that ran last (last), the store it
\* started from (pre) and the store it left.
Ran(cmd) == last.cmd = cmd

Succeeded(cmd) == last.cmd = cmd /\ last.result = "ok"

Failed(cmd) == last.cmd = cmd /\ last.result = "err"

NodesOf(ns, m) == {n \in DOMAIN ns : ns[n].brain_map_id = m}

\* ---- C1
\* C1: create_brain_map is all-or-nothing: when it returns an error (the
\* root-node insert failed after the map-row insert), no brain_maps row for
\* the new id is left in the store.
C1_CreateAllOrNothing ==
    Failed("create_brain_map") => last.id \notin DOMAIN brain_maps

\* ---- C2
\* C2: every brain map whose deleted_at is absent has at least one node whose
\* brain_map_id is the map's id.
C2_LiveMapHasNode ==
    \A m \in DOMAIN brain_maps :
        brain_maps[m].deleted_at = None => NodesOf(brain_map_nodes, m) # {}

\* ---- C3
\* The map a touching command owns its change to.
TouchedMap ==
    CASE Ran("create_brain_map_node") -> last.data.brain_map_id
      [] Ran("create_brain_map_connection") -> last.data.brain_map_id
      [] OTHER -> pre.nodes[last.id].brain_map_id

Touching ==
    \/ Succeeded("create_brain_map_node")
    \/ Succeeded("update_brain_map_node")
    \/ Succeeded("delete_brain_map_node") /\ last.id \in DOMAIN pre.nodes
    \/ Succeeded("create_brain_map_connection")

\* C3: a successful node create, node update, delete of an existing node or
\* connection create leaves the owning map's updated_at equal to the
\* timestamp the command took, which is not before the map's updated_at when
\* the command started; for node create and node update it is also the
\* updated_at written to the node.
C3_TouchPropagation ==
    Touching =>
        /\ TouchedMap \in DOMAIN pre.maps
        /\ TouchedMap \in DOMAIN brain_maps
        /\ brain_maps[TouchedMap].updated_at = last.now
        /\ brain_maps[TouchedMap].updated_at >= pre.maps[TouchedMap].updated_at
        /\ (Ran("create_brain_map_node") \/ Ran("update_brain_map_node")) =>
              brain_map_nodes[last.id].updated_at = brain_maps[TouchedMap].updated_at

\* A node of a map that was last modified earlier has just been deleted.
C3_Witness ==
    /\ Succeeded("delete_brain_map_node")
    /\ last.id \in DOMAIN pre.nodes
    /\ pre.maps[TouchedMap].updated_at < last.now
    /\ brain_maps[TouchedMap].updated_at = last.now

\* ---- C4
\* C4: delete_brain_map_connection succeeds whether or not the row exists,
\* removes the connection row with the given id and nothing else: the maps
\* (their updated_at included), the nodes and the other connections are as
\* they were.
C4_DeleteConnectionFrame ==
    Ran("delete_brain_map_connection") =>
        /\ last.result = "ok"
        /\ last.id \notin DOMAIN brain_map_connections
        /\ DOMAIN brain_map_connections = DOMAIN pre.conns \ {last.id}
        /\ \A c \in DOMAIN brain_map_connections :
              brain_map_connections[c] = pre.conns[c]
        /\ brain_maps = pre.maps
        /\ brain_map_nodes = pre.nodes

\* An existing connection has just been deleted; its map was last touched
\* before this command ran.
C4_Witness ==
    /\ Ran("delete_brain_map_connection")
    /\ last.id \in DOMAIN pre.conns
    /\ pre.conns[last.id].brain_map_id \in DOMAIN brain_maps
    /\ brain_maps[pre.conns[last.id].brain_map_id].updated_at < last.now

\* ---- C5
\* C5: create_brain_map_node stores layer = 1 when no parent_node_id is
\* supplied, and the parent's stored layer + 1 when the supplied
\* parent_node_id names an existing node.
C5_LayerDerivation ==
    Succeeded("create_brain_map_node") =>
        LET parent == last.data.parent_node_id
            node == brain_map_nodes[last.id]
        IN  /\ parent = None => node.layer = 1
            /\ (parent # None /\ parent[1] \in DOMAIN pre.nodes) =>
                  node.layer = pre.nodes[parent[1]].layer + 1

\* A node has just been created under a parent that is not a center node.
C5_Witness ==
    /\ Succeeded("create_brain_map_node")
    /\ last.data.parent_node_id # None
    /\ pre.nodes[last.data.parent_node_id[1]].layer = 1
    /\ brain_map_nodes[last.id].layer = 2
\* ---- C6
\* C6: create_brain_map_node never creates a layer-0 node: the node it
\* creates has layer >= 1; a layer-0 node that enters the store was inserted
\* by create_brain_map; and no map has two layer-0 nodes.
C6_NoSecondLayerZero ==
    /\ Succeeded("create_brain_map_node") => brain_map_nodes[last.id].layer >= 1
    /\ \A n \in DOMAIN brain_map_nodes \ DOMAIN pre.nodes :
          brain_map_nodes[n].layer = 0 => Ran("create_brain_map")
    /\ \A n1, n2 \in DOMAIN brain_map_nodes :
          (/\ brain_map_nodes[n1].layer = 0
           /\ brain_map_nodes[n2].layer = 0
           /\ brain_map_nodes[n1].brain_map_id = brain_map_nodes[n2].brain_map_id)
          => n1 = n2

\* A node has just been created directly under the layer-0 center node of
\* its own map.
C6_Witness ==
    /\ Succeeded("create_brain_map_node")
    /\ last.data.parent_node_id # None
    /\ pre.nodes[last.data.parent_node_id[1]].layer = 0
    /\ pre.nodes[last.data.parent_node_id[1]].brain_map_id = last.data.brain_map_id
    /\ brain_map_nodes[last.id].layer = 1

\* ---- C7
\* C7: no command changes the layer of an existing node: every node that is
\* in the store before and after a command has the layer it had, also after
\* update_brain_map_node gave it, or an ancestor of it, a new parent.
C7_LayerFixedAtCreation ==
    \A n \in DOMAIN brain_map_nodes \cap DOMAIN pre.nodes :
        brain_map_nodes[n].layer = pre.nodes[n].layer

\* update_brain_map_node has just given a node a new parent and the node's
\* layer is not the new parent's layer + 1.
C7_Witness ==
    /\ Succeeded("update_brain_map_node")
    /\ last.data.parent_node_id # None
    /\ brain_map_nodes[last.id].parent_node_id = last.data.parent_node_id
    /\ pre.nodes[last.id].parent_node_id # last.data.parent_node_id
    /\ brain_map_nodes[last.id].layer #
          brain_map_nodes[last.data.parent_node_id[1]].layer + 1

\* ---- C8
\* The node rows whose parent_node_id was node a when the last command began.
ChildrenBefore(a) ==
    {n \in DOMAIN pre.nodes : pre.nodes[n].parent_node_id = Some(a)}

\* The row is in the store as it was, but for an absent parent_node_id.
KeptWithoutParent(n) ==
    /\ n \in DOMAIN brain_map_nodes
    /\ brain_map_nodes[n] = [pre.nodes[n] EXCEPT !.parent_node_id = None]

\* C8 as stated: after delete_brain_map_node(A) every node whose
\* parent_node_id was A still exists, with parent_node_id absent and every
\* other field unchanged.
C8_ChildrenSurvive_Original ==
    Succeeded("delete_brain_map_node") =>
        \A n \in ChildrenBefore(last.id) : KeptWithoutParent(n)

\* C8 amended: after delete_brain_map_node(A) every node other than A whose
\* parent_node_id was A still exists, with parent_node_id absent and every
\* other field (layer included) unchanged.
C8_ChildrenSurvive ==
    Succeeded("delete_brain_map_node") =>
        \A n \in ChildrenBefore(last.id) \ {last.id} : KeptWithoutParent(n)

\* The scenario of the claim: layer-1 node A with a layer-2 child B has just
\* been deleted.
C8_Witness ==
    /\ Succeeded("delete_brain_map_node")
    /\ last.id \in DOMAIN pre.nodes
    /\ pre.nodes[last.id].layer = 1
    /\ \E b \in ChildrenBefore(last.id) \ {last.id} :
          /\ pre.nodes[b].layer = 2
          /\ brain_map_nodes[b].layer = 2
          /\ brain_map_nodes[b].parent_node_id = None

\* ---- C9
References(c, n) == c.source_node_id = n \/ c.target_node_id = n

\* C9: after delete_brain_map_node(n) succeeds no connection has n as source
\* or target, and every connection that had n at neither end is still in
\* the store, unchanged.
C9_NodeDeleteCascade ==
    Succeeded("delete_brain_map_node") =>
        /\ \A c \in DOMAIN brain_map_connections :
              ~References(brain_map_connections[c], last.id)
        /\ \A c \in DOMAIN pre.conns :
              ~References(pre.conns[c], last.id) =>
                  /\ c \in DOMAIN brain_map_connections
                  /\ brain_map_connections[c] = pre.conns[c]

\* A node that was the target, and not the source, of a connection has just
\* been deleted.
C9_Witness ==
    /\ Succeeded("delete_brain_map_node")
    /\ \E c \in DOMAIN pre.conns :
          /\ pre.conns[c].target_node_id = last.id
          /\ pre.conns[c].source_node_id # last.id
          /\ c \notin DOMAIN brain_map_connections

\* ---- C10
\* C10: after delete_brain_map(id, hard = true) succeeds, get_brain_map(id)
\* returns absent and no node and no connection with brain_map_id = id is
\* left in the store.
C10_HardDeleteCascade ==
    (Succeeded("delete_brain_map") /\ last.data = Some(TRUE)) =>
        /\ get_brain_map(last.id) = None
        /\ \A n \in DOMAIN brain_map_nodes :
              brain_map_nodes[n].brain_map_id # last.id
        /\ \A c \in DOMAIN brain_map_connections :
              brain_map_connections[c].brain_map_id # last.id

\* A map that had a node and a connection has just been hard-deleted.
C10_Witness ==
    /\ Succeeded("delete_brain_map")
    /\ last.data = Some(TRUE)
    /\ last.id \in DOMAIN pre.maps
    /\ NodesOf(pre.nodes, last.id) # {}
    /\ \E c \in DOMAIN pre.conns : pre.conns[c].brain_map_id = last.id
\* ---- C11
\* The last command was a soft delete (hard absent or false).
Soft == ~unwrap_or(last.data, FALSE)

\* The ids of the rows of a listing.
Listed(rows) == {rows[i].id : i \in 1..Len(rows)}

\* The elements of a sequence.
Range(q) == {q[i] : i \in 1..Len(q)}

\* C11: a soft delete (delete_brain_map, delete_note, delete_event with hard
\* absent or false) of an existing record sets its deleted_at and removes
\* nothing: the record is no longer in get_brain_maps / get_notes /
\* get_events, and get_brain_map / get_note / get_event by id still returns
\* it, a map together with its unchanged nodes and connections.
C11_SoftDelete ==
    /\ (Succeeded("delete_brain_map") /\ Soft /\ last.id \in DOMAIN pre.maps) =>
          /\ Store = [pre EXCEPT !.maps[last.id].deleted_at = Some(last.now)]
          /\ last.id \notin Listed(get_brain_maps)
          /\ get_brain_map(last.id) # None
          /\ LET got == get_brain_map(last.id)[1]
             IN  /\ got.brain_map = brain_maps[last.id]
                 /\ Range(got.nodes) =
                      {pre.nodes[n] : n \in NodesOf(pre.nodes, last.id)}
                 /\ Len(got.nodes) = Cardinality(NodesOf(pre.nodes, last.id))
                 /\ got.connections =
                      {pre.conns[c] : c \in {c \in DOMAIN pre.conns :
                                        pre.conns[c].brain_map_id = last.id}}
    /\ (Succeeded("delete_note") /\ Soft /\ last.id \in DOMAIN pre.notes) =>
          /\ Store = [pre EXCEPT !.notes[last.id].deleted_at = Some(last.now)]
          /\ \A f \in OptFolderArgs : last.id \notin Listed(get_notes(f))
          /\ get_note(last.id) = Some(notes[last.id])
    /\ (Succeeded("delete_event") /\ Soft /\ last.id \in DOMAIN pre.events) =>
          /\ Store = [pre EXCEPT !.events[last.id].deleted_at = Some(last.now)]
          /\ last.id \notin Listed(get_events)
          /\ get_event(last.id) = Some(events[last.id])

\* A map that was listed, with a node and a connection, has just been soft
\* deleted with hard = false.
C11_Witness ==
    /\ Succeeded("delete_brain_map")
    /\ last.data = Some(FALSE)
    /\ last.id \in DOMAIN pre.maps
    /\ pre.maps[last.id].deleted_at = None
    /\ NodesOf(pre.nodes, last.id) # {}
    /\ \E c \in DOMAIN pre.conns : pre.conns[c].brain_map_id = last.id
    /\ brain_maps[last.id].deleted_at = Some(last.now)
\* ---- C12
\* A stored value after a patch: the patch's value if it supplies one, the
\* value stored before otherwise (optional column / required column).
PatchedOption(new, patch, old) ==
    IF patch # None THEN new = patch ELSE new = old

Patched(new, patch, old) ==
    IF patch # None THEN new = patch[1] ELSE new = old

\* The partial-update semantics of the last command, on the map or node row
\* it names.
MapPatched ==
    LET old == pre.maps[last.id]
        new == brain_maps[last.id]
    IN  /\ last.id \in DOMAIN brain_maps
        /\ Patched(new.title, last.data.title, old.title)
        /\ PatchedOption(new.center_node_id, last.data.center_node_id,
                         old.center_node_id)
        /\ Patched(new.center_node_text, last.data.center_node_text,
                   old.center_node_text)
        /\ new.updated_at = last.now
        /\ new = [old EXCEPT !.title = new.title,
                             !.center_node_id = new.center_node_id,
                             !.center_node_text = new.center_node_text,
                             !.updated_at = last.now]

NodePatched ==
    LET old == pre.nodes[last.id]
        new == brain_map_nodes[last.id]
    IN  /\ last.id \in DOMAIN brain_map_nodes
        /\ PatchedOption(new.parent_node_id, last.data.parent_node_id,
                         old.parent_node_id)
        /\ Patched(new.label, last.data.label, old.label)
        /\ Patched(new.x, last.data.x, old.x)
        /\ Patched(new.y, last.data.y, old.y)
        /\ PatchedOption(new.linked_folder_id, last.data.linked_folder_id,
                         old.linked_folder_id)
        /\ new.updated_at = last.now
        /\ new = [old EXCEPT !.parent_node_id = new.parent_node_id,
                             !.label = new.label,
                             !.x = new.x, !.y = new.y,
                             !.linked_folder_id = new.linked_folder_id,
                             !.updated_at = last.now]

UpdateOfMissing ==
    \/ Ran("update_brain_map") /\ last.id \notin DOMAIN pre.maps
    \/ Ran("update_brain_map_node") /\ last.id \notin DOMAIN pre.nodes
    \/ Ran("update_note") /\ last.id \notin DOMAIN pre.notes
    \/ Ran("update_event") /\ last.id \notin DOMAIN pre.events
    \/ Ran("update_folder") /\ last.id \notin DOMAIN pre.folders

\* C13: update_brain_map, update_brain_map_node, update_note, update_event
\* and update_folder called with an id that matches no row return an error
\* and leave every table unchanged: no row is inserted and no map's
\* updated_at is touched.
C13_UpdateMissing ==
    UpdateOfMissing =>
        /\ last.result = "err"
        /\ Store = pre

\* update_brain_map_node has just been called with the id of a node that was
\* deleted with its map, while another map is in the store.
C13_Witness ==
    /\ Ran("update_brain_map_node")
    /\ last.id # NoRow
    /\ last.id \notin DOMAIN pre.nodes
    /\ last.data.label # None
    /\ pre.maps # <<>>
    /\ last.result = "err"
\* ---- C14
\* C14: delete_brain_map_node called with an id that matches no node returns
\* success and leaves every table unchanged, every map's updated_at
\* included; so a second delete of a node leaves the store as the first
\* delete left it.
C14_DeleteMissingNode ==
    (Ran("delete_brain_map_node") /\ last.id \notin DOMAIN pre.nodes) =>
        /\ last.result = "ok"
        /\ Store = pre

\* The center node of a map that is still in the store has just been deleted
\* a second time.
C14_Witness ==
    /\ Ran("delete_brain_map_node")
    /\ last.id # NoRow
    /\ last.id \notin DOMAIN pre.nodes
    /\ \E m \in DOMAIN brain_maps :
          /\ brain_maps[m].center_node_id = Some(last.id)
          /\ brain_maps[m].updated_at < last.now
\* ---- C15
\* The items of the last batch that name no node of the store the command
\* started from.
BadItems == {k \in 1..Len(last.data) : last.data[k][1] \notin DOMAIN pre.nodes}

\* C15: update_node_positions given a batch in which an item names no
\* existing node, among items that name existing nodes, returns an error,
\* with the updates of the items before the bad item committed and the items
\* after it not applied.
C15_BadItemFails ==
    (/\ Ran("update_node_positions")
     /\ BadItems # {}
     /\ BadItems # 1..Len(last.data)) =>
        LET bad == CHOOSE k \in BadItems : \A j \in BadItems : k <= j
        IN  /\ last.result = "err"
            /\ brain_map_nodes =
                 PositionsApplied(pre.nodes, last.data, bad - 1, last.now)
\* ---- C16
\* C16: create_brain_map returns, and on success has stored, a map whose
\* center_node_id names the single returned node; the node has layer 0, no
\* parent_node_id, the new map's id as brain_map_id and the map's
\* center_node_text as label; the returned connection list is empty; with no
\* arguments the title is "Untitled Map" and the label "Central Idea".
C16_CreateBrainMap ==
    Succeeded("create_brain_map") =>
        LET brain_map == last.ret[1].brain_map
            nodes == last.ret[1].nodes
            node == nodes[1]
        IN  /\ Len(nodes) = 1
            /\ brain_map.id = last.id
            /\ brain_map.center_node_id = Some(node.id)
            /\ node.layer = 0
            /\ node.parent_node_id = None
            /\ node.brain_map_id = brain_map.id
            /\ node.label = brain_map.center_node_text
            /\ last.ret[1].connections = <<>>
            /\ last.data.title = None => brain_map.title = "Untitled Map"
            /\ last.data.center_node_text = None => node.label = "Central Idea"
            /\ brain_map.id \notin DOMAIN pre.maps
            /\ node.id \notin DOMAIN pre.nodes
            /\ get_brain_map(brain_map.id) =
                 Some([brain_map |-> brain_map, nodes |-> nodes,
                       connections |-> {}])

\* A second map has just been created with no arguments.
C16_Witness ==
    /\ Succeeded("create_brain_map")
    /\ last.data = [title |-> None, center_node_text |-> None]
    /\ pre.maps # <<>>
    /\ pre.nodes # <<>>
    /\ last.ret[1].brain_map.title = "Untitled Map"
\* ---- C17
\* The nodes and the connections of map id in the store.
OwnNodes(id) ==
    {brain_map_nodes[n] : n \in NodesOf(brain_map_nodes, id)}

OwnConnections(id) ==
    {brain_map_connections[c] :
        c \in {c \in DOMAIN brain_map_connections :
                  brain_map_connections[c].brain_map_id = id}}

\* q lists its rows by layer ascending, then created_at ascending.
ByLayerThenCreation(q) ==
    \A i, j \in 1..Len(q) :
        i < j => \/ q[i].layer < q[j].layer
                 \/ /\ q[i].layer = q[j].layer
                    /\ q[i].created_at <= q[j].created_at

\* C17: get_brain_map(id) returns absent exactly when no brain_maps row has
\* that id; otherwise it returns that row, exactly the nodes whose
\* brain_map_id is id, each once, by layer ascending and then created_at
\* ascending, and exactly the connections whose brain_map_id is id.
C17_GetBrainMap ==
    \A id \in MapArgs :
        /\ get_brain_map(id) = None <=> id \notin DOMAIN brain_maps
        /\ id \in DOMAIN brain_maps =>
             LET got == get_brain_map(id)[1]
             IN  /\ got.brain_map = brain_maps[id]
                 /\ Range(got.nodes) = OwnNodes(id)
                 /\ Len(got.nodes) = Cardinality(OwnNodes(id))
                 /\ ByLayerThenCreation(got.nodes)
                 /\ got.connections = OwnConnections(id)

\* A map of four nodes is read whose nodes were not created in the order of
\* their layers, and an identifier is read that no row has.
C17_Witness ==
    /\ \E id \in DOMAIN brain_maps :
          LET nodes == get_brain_map(id)[1].nodes
          IN  /\ \E i, j \in 1..Len(nodes) :
                    i < j /\ nodes[i].created_at > nodes[j].created_at
              /\ Len(nodes) >= 4
    /\ get_brain_map(NoRow) = None
\* ---- C18
\* The maps whose deleted_at is absent.
LiveMaps == {m \in DOMAIN brain_maps : brain_maps[m].deleted_at = None}

\* C18: get_brain_maps returns exactly the maps whose deleted_at is absent,
\* each once, in non-increasing updated_at order; right after a successful
\* node create, node update, delete of an existing node or connection create
\* in a map that is not deleted, that map is listed before every map whose
\* updated_at is strictly older.
C18_GetBrainMaps ==
    LET q == get_brain_maps
    IN  /\ Range(q) = {brain_maps[m] : m \in LiveMaps}
        /\ Len(q) = Cardinality(LiveMaps)
        /\ \A i, j \in 1..Len(q) : i < j => q[i].updated_at >= q[j].updated_at
        /\ (Touching /\ TouchedMap \in LiveMaps) =>
              \E i \in 1..Len(q) :
                  /\ q[i].id = TouchedMap
                  /\ \A j \in 1..Len(q) :
                        q[j].updated_at < q[i].updated_at => i < j

\* A node command has just moved its map, until then the older of two listed
\* maps, to the head of the listing.
C18_Witness ==
    /\ Touching
    /\ TouchedMap \in LiveMaps
    /\ Len(get_brain_maps) = 2
    /\ get_brain_maps[1].id = TouchedMap
    /\ pre.maps[TouchedMap].updated_at < get_brain_maps[2].updated_at
\* ---- C19
\* The store a command leaves when it runs with no other command between
\* its first statement and its return: the thread's command applied to the
\* store it found when it acquired the lock, up to the return it has reached.
Serial(c) ==
    CASE c.cmd = "delete_brain_map_node" ->
           LET brain_map_id == OwningMap(c.snap.nodes, c.id)
               after == NodeDeleted(c.snap, c.id)
           IN  IF brain_map_id # None /\ c.result = "ok"
               THEN [after EXCEPT !.maps = Touch(@, brain_map_id[1], c.now)]
               ELSE after
      [] c.cmd = "update_brain_map_node" ->
           IF Current(c.snap.nodes, c.id) = None
           THEN c.snap
           ELSE LET current == Current(c.snap.nodes, c.id)[1]
                    updated == UpdatedNode(current, c.data, c.now)
                    row == NodeRowUpdated(current, updated)
                IN  IF ~NodeRowAccepted(c.snap.maps, c.snap.nodes, row)
                    THEN c.snap
                    ELSE [c.snap EXCEPT
                            !.nodes[c.id] = row,
                            !.maps = IF c.result = "ok"
                                     THEN Touch(@, updated.brain_map_id, c.now)
                                     ELSE @]
      [] OTHER ->
           [c.snap EXCEPT !.nodes = PositionsApplied(@, c.data, c.k, c.now)]

\* The threads that own the guard of db.conn.
Holders == {t \in Threads : threads[t].guard}

\* C19: at most one command holds the store connection at any time; no
\* statement of another command is issued between a command's lock
\* acquisition and its return; and the store a command leaves at its return
\* is the store it found when it acquired the lock with that command alone
\* applied to it, so the execution equals the serial one in lock order.
C19_MutualExclusion ==
    /\ Cardinality(Holders) <= 1
    /\ \A t \in Threads :
          /\ ~threads[t].foreign
          /\ threads[t].pc \in {"running", "exit"} => threads[t].guard
          /\ threads[t].pc = "exit" => BrainStore = Serial(threads[t])

\* A delete_brain_map_node that was invoked while another command held the
\* lock has issued its three statements and is at its return; the other
\* command has returned.
C19_Witness ==
    \E t, u \in Threads :
        /\ t # u
        /\ threads[t].pc = "exit"
        /\ threads[t].cmd = "delete_brain_map_node"
        /\ threads[t].k = 3
        /\ threads[t].blocked
        /\ threads[t].snap # BrainStore
        /\ threads[u].pc = "idle"
        /\ threads[u].result # "none"

\* ---- C20
\* A thread is in a command from its invocation to its return.
Returned(t) == threads[t].pc = "idle"

\* C20: no command that has returned holds the lock, after a success or an
\* error, the mutex is taken only while some command owns its guard, and
\* under fair scheduling every command that waits for the lock acquires it
\* and returns.
C20_LockReleased ==
    /\ [](/\ \A t \in Threads : Returned(t) => ~threads[t].guard
          /\ mutex <=> Holders # {})
    /\ \A t \in Threads :
          /\ threads[t].pc = "waiting" ~> threads[t].guard
          /\ threads[t].pc = "waiting" ~> Returned(t)

\* A command that was invoked while another held the lock is at its
\* successful return, and the other has returned an error.
C20_Witness ==
    \E t, u \in Threads :
        /\ t # u
        /\ Returned(u)
        /\ threads[u].result = "err"
        /\ ~threads[u].guard
        /\ threads[t].pc = "exit"
        /\ threads[t].blocked
        /\ threads[t].result = "ok"
\* ---- C21
\* create_brain_map_node was called for an existing map with a
\* parent_node_id that no node row has.
DanglingParent ==
    /\ Ran("create_brain_map_node")
    /\ last.data.brain_map_id \in DOMAIN pre.maps
    /\ last.data.parent_node_id # None
    /\ last.data.parent_node_id[1] \notin DOMAIN pre.nodes

\* C21: create_brain_map_node called with a parent_node_id that matches no
\* existing node succeeds, and the new node is stored with layer 1 and is
\* returned to the caller.
C21_DanglingParentSucceeds ==
    DanglingParent =>
        /\ last.result = "ok"
        /\ last.id \in DOMAIN brain_map_nodes
        /\ brain_map_nodes[last.id].layer = 1
        /\ brain_map_nodes[last.id].parent_node_id = last.data.parent_node_id
        /\ last.ret = Some(brain_map_nodes[last.id])
\* ---- C22
\* C22: in every reachable state, for every connection the nodes named by
\* source_node_id and target_node_id both have brain_map_id equal to the
\* connection's own brain_map_id.
C22_ConnectionWithinMap ==
    \A c \in DOMAIN brain_map_connections :
        \A n \in {brain_map_connections[c].source_node_id,
                  brain_map_connections[c].target_node_id} :
            n \in DOMAIN brain_map_nodes =>
                brain_map_nodes[n].brain_map_id =
                    brain_map_connections[c].brain_map_id
\* ---- C23
\* C23: no command changes any field of a connection: a connection that was
\* in the store when a command started and is in the store when it returns
\* is the same row, and a connection that appears is the row the create
\* command built, and returned when it succeeded.
C23_ConnectionsImmutable ==
    /\ \A c \in DOMAIN pre.conns \cap DOMAIN brain_map_connections :
          brain_map_connections[c] = pre.conns[c]
    /\ \A c \in DOMAIN brain_map_connections \ DOMAIN pre.conns :
          /\ Ran("create_brain_map_connection")
          /\ last.id = c
          /\ last.result = "ok" => last.ret = Some(brain_map_connections[c])

\* update_brain_map_node has just changed the node at one end of a
\* connection and touched the connection's map; the connection is in the
\* store as it was.
C23_Witness ==
    /\ Succeeded("update_brain_map_node")
    /\ brain_map_nodes[last.id] # pre.nodes[last.id]
    /\ \E c \in DOMAIN pre.conns :
          /\ References(pre.conns[c], last.id)
          /\ brain_maps[pre.conns[c].brain_map_id] #
                pre.maps[pre.conns[c].brain_map_id]
          /\ c \in DOMAIN brain_map_connections
          /\ brain_map_connections[c] = pre.conns[c]
\* ---- C24
\* Row r of a table after the folder f is deleted: the field that named f is
\* absent, the others are as they were.
Unfiled(r, field, f) ==
    IF r[field] = Some(f) THEN [r EXCEPT ![field] = None] ELSE r

\* C24: after delete_folder(f) succeeds the folder row is gone and nothing
\* else is removed: every note, every other folder and every node is still
\* in the store, with folder_id, parent_id, linked_folder_id absent where it
\* was f and every other field as it was; maps, connections and events are
\* as they were.
C24_DeleteFolder ==
    Succeeded("delete_folder") =>
        LET f == last.id
        IN  /\ f \notin DOMAIN folders
            /\ DOMAIN folders = DOMAIN pre.folders \ {f}
            /\ \A g \in DOMAIN folders :
                  folders[g] = Unfiled(pre.folders[g], "parent_id", f)
            /\ DOMAIN notes = DOMAIN pre.notes
            /\ \A n \in DOMAIN notes :
                  notes[n] = Unfiled(pre.notes[n], "folder_id", f)
            /\ DOMAIN brain_map_nodes = DOMAIN pre.nodes
            /\ \A n \in DOMAIN brain_map_nodes :
                  brain_map_nodes[n] =
                      Unfiled(pre.nodes[n], "linked_folder_id", f)
            /\ brain_maps = pre.maps
            /\ brain_map_connections = pre.conns
            /\ events = pre.events

\* A folder that held a note and was the parent of another folder has just
\* been deleted.
C24_Witness ==
    /\ Succeeded("delete_folder")
    /\ last.id \in DOMAIN pre.folders
    /\ \E n \in DOMAIN pre.notes :
          /\ pre.notes[n].folder_id = Some(last.id)
          /\ notes[n].folder_id = None
    /\ \E g \in DOMAIN pre.folders :
          /\ g # last.id
          /\ pre.folders[g].parent_id = Some(last.id)
          /\ folders[g].parent_id = None
\* ---- C25
\* The seed of the create command that ran last names a row that is not in
\* the store.
NodeSeedDangles ==
    \/ last.data.brain_map_id \notin DOMAIN pre.maps
    \/ /\ last.data.parent_node_id # None
       /\ last.data.parent_node_id[1] \notin DOMAIN pre.nodes

ConnectionSeedDangles ==
    \/ last.data.brain_map_id \notin DOMAIN pre.maps
    \/ last.data.source_node_id \notin DOMAIN pre.nodes
    \/ last.data.target_node_id \notin DOMAIN pre.nodes

\* C25: in every reachable state every connection's source_node_id and
\* target_node_id name existing nodes and its brain_map_id an existing map,
\* every node's brain_map_id names an existing map and every present
\* parent_node_id an existing node; a create_brain_map_node or
\* create_brain_map_connection whose seed names a missing row returns an
\* error, inserts nothing and touches no map.
C25_ReferentialIntegrity ==
    /\ \A c \in DOMAIN brain_map_connections :
          /\ brain_map_connections[c].brain_map_id \in DOMAIN brain_maps
          /\ brain_map_connections[c].source_node_id \in DOMAIN brain_map_nodes
          /\ brain_map_connections[c].target_node_id \in DOMAIN brain_map_nodes
    /\ \A n \in DOMAIN brain_map_nodes :
          /\ brain_map_nodes[n].brain_map_id \in DOMAIN brain_maps
          /\ \/ brain_map_nodes[n].parent_node_id = None
             \/ brain_map_nodes[n].parent_node_id[1] \in DOMAIN brain_map_nodes
    /\ (Ran("create_brain_map_node") /\ NodeSeedDangles) =>
          /\ last.result = "err"
          /\ Store = pre
    /\ (Ran("create_brain_map_connection") /\ ConnectionSeedDangles) =>
          /\ last.result = "err"
          /\ Store = pre

\* A connection whose target had been deleted has just been refused, in a
\* store that holds the map and the source node it names.
C25_Witness ==
    /\ Failed("create_brain_map_connection")
    /\ last.data.brain_map_id \in DOMAIN pre.maps
    /\ last.data.source_node_id \in DOMAIN pre.nodes
    /\ last.data.target_node_id \notin DOMAIN pre.nodes
    /\ last.data.target_node_id # NoRow
    /\ Store = pre
\* ---- C26
\* The items of the last batch that name node n.
ItemsFor(n) == {k \in 1..Len(last.data) : last.data[k][1] = n}

\* The last of a non-empty set of items.
LastOf(K) == CHOOSE k \in K : \A j \in K : j <= k

\* C26: a successful update_node_positions sets x and y of each listed
\* existing node to the last pair given for it in call order, writes the one
\* timestamp of the call to the updated_at of all of them, changes no other
\* field of any node, neither adds nor removes a node, and leaves every map
\* row (its updated_at included) and every connection as it was.
C26_PositionsWritten ==
    Succeeded("update_node_positions") =>
        /\ DOMAIN brain_map_nodes = DOMAIN pre.nodes
        /\ \A n \in DOMAIN pre.nodes :
              IF ItemsFor(n) = {}
              THEN brain_map_nodes[n] = pre.nodes[n]
              ELSE brain_map_nodes[n] =
                     [pre.nodes[n] EXCEPT
                         !.x = last.data[LastOf(ItemsFor(n))][2],
                         !.y = last.data[LastOf(ItemsFor(n))][3],
                         !.updated_at = last.now]
        /\ brain_maps = pre.maps
        /\ brain_map_connections = pre.conns

\* A batch that named one node twice, with two different positions, has
\* been applied to a map that holds a second node.
C26_Witness ==
    /\ Succeeded("update_node_positions")
    /\ \E n \in DOMAIN pre.nodes :
          /\ Cardinality(ItemsFor(n)) = 2
          /\ \E j, k \in ItemsFor(n) : last.data[j][2] # last.data[k][2]
          /\ brain_map_nodes[n].updated_at = last.now
          /\ brain_maps[pre.nodes[n].brain_map_id].updated_at < last.now
          /\ \E o \in DOMAIN pre.nodes \ {n} :
                brain_map_nodes[o].updated_at < last.now
\* ---- C27
\* Node `to` is met within k steps up the parent links of ns from node
\* `from` (one step at least).
RECURSIVE Above(_, _, _, _)
Above(ns, from, to, k) ==
    /\ k > 0
    /\ from \in DOMAIN ns
    /\ ns[from].parent_node_id # None
    /\ \/ ns[from].parent_node_id[1] = to
       \/ Above(ns, ns[from].parent_node_id[1], to, k - 1)

Ancestor(ns, n, a) == Above(ns, n, a, Cardinality(DOMAIN ns))

\* C27: update_brain_map_node called on an existing node with a
\* parent_node_id that names an existing node writes that parent to the
\* node's row, whichever node it is: the node itself and a node that has the
\* node among its ancestors included.  The layer stays as stored.
C27_AnyParentStored ==
    (/\ Ran("update_brain_map_node")
     /\ last.id \in DOMAIN pre.nodes
     /\ last.data.parent_node_id # None
     /\ last.data.parent_node_id[1] \in DOMAIN pre.nodes) =>
        /\ last.id \in DOMAIN brain_map_nodes
        /\ brain_map_nodes[last.id].parent_node_id = last.data.parent_node_id
        /\ brain_map_nodes[last.id].layer = pre.nodes[last.id].layer
        /\ last.result = "ok" => last.ret[1].parent_node_id = last.data.parent_node_id

\* A node has just been given one of its descendants as parent, and is now
\* its own ancestor without being its own parent.
C27_Witness ==
    /\ Succeeded("update_brain_map_node")
    /\ last.data.parent_node_id # None
    /\ last.data.parent_node_id[1] # last.id
    /\ Ancestor(pre.nodes, last.data.parent_node_id[1], last.id)
    /\ ~Ancestor(pre.nodes, last.id, last.id)
    /\ Ancestor(brain_map_nodes, last.id, last.id)

\* A node has just been made its own parent.
C27_SelfParent ==
    /\ Succeeded("update_brain_map_node")
    /\ brain_map_nodes[last.id].parent_node_id = Some(last.id)
    /\ pre.nodes[last.id].parent_node_id # Some(last.id)
\* ---- C28
\* The maps that were soft-deleted when the last command started.
WereDeleted == {m \in DOMAIN pre.maps : pre.maps[m].deleted_at # None}

\* C28: a map whose deleted_at was set when a command started is, when the
\* command returns, either gone from the store, by the hard delete_brain_map
\* of that map, or still in it with deleted_at set, and then get_brain_maps
\* does not list it.
C28_SoftDeleteStays ==
    WereDeleted # {} =>
        \A m \in WereDeleted :
            IF m \in DOMAIN brain_maps
            THEN /\ brain_maps[m].deleted_at # None
                 /\ \A i \in 1..Len(get_brain_maps) : get_brain_maps[i].id # m
            ELSE /\ Succeeded("delete_brain_map")
                 /\ last.id = m
                 /\ last.data = Some(TRUE)

\* update_brain_map has just given a soft-deleted map a new title; the map
\* is still soft-deleted and get_brain_maps lists the other map alone.
C28_Witness ==
    /\ Succeeded("update_brain_map")
    /\ last.id \in WereDeleted
    /\ brain_maps[last.id].title # pre.maps[last.id].title
    /\ brain_maps[last.id].updated_at = last.now
    /\ brain_maps[last.id].deleted_at = pre.maps[last.id].deleted_at
    /\ Len(get_brain_maps) = 1
    /\ get_brain_maps[1].id # last.id

\* A node has just been created in a soft-deleted map, and the touch has
\* written the map's updated_at.
C28_TouchedWhileDeleted ==
    /\ Succeeded("create_brain_map_node")
    /\ last.data.brain_map_id \in WereDeleted
    /\ brain_maps[last.data.brain_map_id].updated_at = last.now
\* ---- C29
\* The maps that named node n as their center when the last command started.
CenteredOn(n) ==
    {m \in DOMAIN pre.maps : pre.maps[m].center_node_id = Some(n)}

\* C29: delete_brain_map_node called with the id of an existing node that a
\* map names in center_node_id removes the node as it removes any other; it
\* returns an error only if the touch of the owning map failed, and success
\* with that map's updated_at written otherwise; every map that named the
\* node keeps its center_node_id and center_node_text, so its center_node_id
\* names no node.
C29_CenterNodeDeleted ==
    (/\ Ran("delete_brain_map_node")
     /\ last.id \in DOMAIN pre.nodes
     /\ CenteredOn(last.id) # {}) =>
        LET owner == pre.nodes[last.id].brain_map_id
        IN  /\ last.id \notin DOMAIN brain_map_nodes
            /\ DOMAIN brain_map_nodes = DOMAIN pre.nodes \ {last.id}
            /\ DOMAIN brain_maps = DOMAIN pre.maps
            /\ \A m \in CenteredOn(last.id) :
                  /\ brain_maps[m].center_node_id = Some(last.id)
                  /\ brain_maps[m].center_node_text = pre.maps[m].center_node_text
                  /\ brain_maps[m].center_node_id[1] \notin DOMAIN brain_map_nodes
            /\ \A m \in DOMAIN pre.maps :
                  brain_maps[m] =
                     IF m = owner /\ last.result = "ok"
                     THEN [pre.maps[m] EXCEPT !.updated_at = last.now]
                     ELSE pre.maps[m]

\* The center node of a map has just been deleted; a node that had it as
\* parent remains, without parent, and the map still names the deleted node.
C29_Witness ==
    /\ Succeeded("delete_brain_map_node")
    /\ last.id \in DOMAIN pre.nodes
    /\ pre.nodes[last.id].layer = CenterLayer
    /\ \E m \in CenteredOn(last.id) :
          /\ pre.nodes[last.id].brain_map_id = m
          /\ brain_maps[m].center_node_id = Some(last.id)
          /\ brain_maps[m].updated_at = last.now
    /\ last.id \notin DOMAIN brain_map_nodes
    /\ \E n \in DOMAIN brain_map_nodes :
          /\ pre.nodes[n].parent_node_id = Some(last.id)
          /\ brain_map_nodes[n].parent_node_id = None
====
